---- MODULE Spec2Model ----
(***************************************************************************)
(* A model of lark/parsers/cyk.py: the CYK parser, the conversion of a     *)
(* context-free grammar to Chomsky normal form (TERM, BIN, UNIT) and the   *)
(* reversal of a CNF parse tree to the shape of the original grammar.      *)
(*                                                                         *)
(* A Python string is a sequence of one-character strings, so that         *)
(* sorting by str(rule), the '__T_' / '__SP_' prefixes and the names       *)
(* Split formats are computed character by character, as the code does.    *)
(***************************************************************************)
EXTENDS Integers, Sequences, FiniteSets, TLC

VARIABLES
  rules,        \* the lark rules handed to Parser.__init__
  order,        \* where this build's hashes put the keys of terminal_rules
  pc,           \* position in Parser.__init__ / "ready" between parse calls
  orig_rules,   \* Parser.orig_rules: alias -> lark rule
  start,        \* Parser.start
  g,            \* the Grammar being converted (local g of ToCnf / Unit)
  grammar,      \* Parser.grammar: the CnfWrapper
  tokenized,    \* the argument of the last parse call
  table,        \* table of the last _Parse
  trees,        \* trees of the last _Parse
  hashed,       \* where the hashes put the rules of the sets of that table
  result,       \* what the last parse call returned or raised
  prev,         \* history: how the call before the last one ended
  splitSt,      \* state of the Split specification
  matchSt,      \* state of the T.match specification
  step,         \* how many steps Parser.__init__ has taken
  fresh         \* the grammar of a second Parser constructed of the same rules

vars == <<rules, order, pc, orig_rules, start, g, grammar, tokenized, table,
          trees, hashed, result, prev, splitSt, matchSt, step, fresh>>

-----------------------------------------------------------------------------
(* Strings *)

\* The characters the model uses, in ASCII order.
Chars ==
  <<" ", "*", "+", "-", "0", "1", "2", "3", "4", "5", "6", "7", "8", "9", ">",
    "P", "S", "T", "_", "a", "b", "c", "s", "t", "u", "v", "|">>

Ord(c) == CHOOSE i \in 1..Len(Chars) : Chars[i] = c

MinOf(S) == CHOOSE m \in S : \A k \in S : m <= k

RECURSIVE LessFrom(_, _, _)
\* x[i..] < y[i..], given that x and y agree before position i.
LessFrom(x, y, i) ==
  IF i > Len(y) THEN FALSE
  ELSE IF i > Len(x) THEN TRUE
  ELSE IF x[i] = y[i] THEN LessFrom(x, y, i + 1)
  ELSE Ord(x[i]) < Ord(y[i])

\* x < y for Python 2 byte strings.
StrLess(x, y) == LessFrom(x, y, 1)

RECURSIVE Concat(_)
\* The concatenation of a sequence of sequences.
Concat(ss) == IF ss = <<>> THEN <<>> ELSE Head(ss) \o Concat(Tail(ss))

RECURSIVE Join(_, _)
\* sep.join(strs)
Join(sep, strs) ==
  IF strs = <<>> THEN <<>>
  ELSE IF Len(strs) = 1 THEN strs[1]
  ELSE strs[1] \o sep \o Join(sep, Tail(strs))

StartsWith(s, prefix) ==
  Len(s) >= Len(prefix) /\ SubSeq(s, 1, Len(prefix)) = prefix

Digits == <<"0", "1", "2", "3", "4", "5", "6", "7", "8", "9">>

RECURSIVE IntStr(_)
\* '%d' % n, for n >= 0
IntStr(n) ==
  IF n < 10 THEN <<Digits[n + 1]>>
  ELSE IntStr(n \div 10) \o <<Digits[(n % 10) + 1]>>

\* The orders in which n things can come: the permutations of 1..n.
Orders(n) == {f \in [1..n -> 1..n] : \A a, b \in 1..n : f[a] = f[b] => a = b}

\* Iterating a hash container (dict, set) that was filled in the order
\* 'seq'.  The hashes of the keys decide where each lands, so the elements
\* come in some order 'perm' of their own: the k-th to come is the
\* perm[k]-th inserted.  Each container has its order, and keeps it for as
\* long as nothing is added to it.
Iter(seq, perm) == [k \in 1..Len(seq) |-> seq[perm[k]]]

-----------------------------------------------------------------------------
(* Symbols and rules *)

T(s) == [kind |-> "T", s |-> s]
NT(s) == [kind |-> "NT", s |-> s]

IsT(x) == x.kind = "T"
IsNT(x) == x.kind = "NT"

Rule(lhs, rhs, weight, alias) ==
  [cls |-> "Rule", lhs |-> lhs, rhs |-> rhs, weight |-> weight,
   alias |-> alias, skipped_rules |-> <<>>]

UnitSkipRule(lhs, rhs, skipped_rules, weight, alias) ==
  [cls |-> "UnitSkipRule", lhs |-> lhs, rhs |-> rhs, weight |-> weight,
   alias |-> alias, skipped_rules |-> skipped_rules]

IsUnitSkipRule(r) == r.cls = "UnitSkipRule"

\* str(rule)
RuleStr(r) ==
  r.lhs.s \o <<" ", "-", ">", " ">> \o Join(<<" ">>, [i \in 1..Len(r.rhs) |-> r.rhs[i].s])

RECURSIVE RuleId(_)
\* What Rule.__eq__ and UnitSkipRule.__eq__ compare: the class, lhs, rhs and,
\* rule by rule, the skipped rules; never the weight or the alias.
RuleId(r) ==
  [cls |-> r.cls, lhs |-> r.lhs, rhs |-> r.rhs,
   skipped_rules |-> [i \in 1..Len(r.skipped_rules) |-> RuleId(r.skipped_rules[i])]]

RuleEq(a, b) == RuleId(a) = RuleId(b)

RECURSIVE SortedInsert(_, _)
\* 'sorted' with 'r' inserted after every rule whose str is <= str(r).
SortedInsert(sorted, r) ==
  IF sorted = <<>> THEN <<r>>
  ELSE IF StrLess(RuleStr(r), RuleStr(Head(sorted)))
       THEN <<r>> \o sorted
       ELSE <<Head(sorted)>> \o SortedInsert(Tail(sorted), r)

RECURSIVE SortedByStr(_, _)
SortedByStr(done, todo) ==
  IF todo = <<>> THEN done
  ELSE SortedByStr(SortedInsert(done, Head(todo)), Tail(todo))

\* Grammar(rules).rules: sorted(rules, key=str), a stable sort.
Grammar(rs) == SortedByStr(<<>>, rs)

-----------------------------------------------------------------------------
(* Conversion to Chomsky normal form *)

BuildUnitSkipRule(unit_rule, target_rule) ==
  LET skipped_rules ==
        (IF IsUnitSkipRule(unit_rule) THEN unit_rule.skipped_rules ELSE <<>>)
        \o <<target_rule>>
        \o (IF IsUnitSkipRule(target_rule) THEN target_rule.skipped_rules ELSE <<>>)
  IN  UnitSkipRule(unit_rule.lhs, target_rule.rhs, skipped_rules,
                   unit_rule.weight + target_rule.weight, unit_rule.alias)

None == [cls |-> "None"]

IsNtUnitRule(rule) == Len(rule.rhs) = 1 /\ IsNT(rule.rhs[1])

\* GetAnyNtUnitRule overlooking the unit rules RemoveUnitRule has added.
GetAnyPlainNtUnitRule(gr) ==
  LET found == {i \in 1..Len(gr) : IsNtUnitRule(gr[i]) /\ ~IsUnitSkipRule(gr[i])}
  IN  IF found = {} THEN None ELSE gr[MinOf(found)]

GetAnyNtUnitRule(gr) ==
  LET found == {i \in 1..Len(gr) : IsNtUnitRule(gr[i])}
  IN  IF found = {} THEN None ELSE gr[MinOf(found)]

RemoveUnitRule(gr, rule) ==
  LET new_rules == SelectSeq(gr, LAMBDA x : ~RuleEq(x, rule))
      refs == SelectSeq(gr, LAMBDA x : x.lhs = rule.rhs[1])
  IN  Grammar(new_rules \o [i \in 1..Len(refs) |-> BuildUnitSkipRule(rule, refs[i])])

\* rule_name % i in Split
SplitName(rule, i) ==
  LET rule_str == rule.lhs.s \o <<"_", "_">>
                    \o Join(<<"_">>, [k \in 1..Len(rule.rhs) |-> rule.rhs[k].s])
  IN  <<"_", "_", "S", "P", "_">> \o rule_str \o <<"_">> \o IntStr(i)

\* Split giving every fragment the weight of the rule.
SplitWeighted(rule) ==
  LET n == Len(rule.rhs)
  IN  <<Rule(rule.lhs, <<rule.rhs[1], NT(SplitName(rule, 1))>>, rule.weight, rule.alias)>>
      \o [i \in 1..(n - 3) |->
            Rule(NT(SplitName(rule, i)),
                 <<rule.rhs[i + 1], NT(SplitName(rule, i + 1))>>, rule.weight, "Split")]
      \o <<Rule(NT(SplitName(rule, n - 2)), SubSeq(rule.rhs, n - 1, n),
               rule.weight, "Split")>>

Split(rule) ==
  LET n == Len(rule.rhs)
  IN  <<Rule(rule.lhs, <<rule.rhs[1], NT(SplitName(rule, 1))>>, rule.weight, rule.alias)>>
      \o [i \in 1..(n - 3) |->
            Rule(NT(SplitName(rule, i)),
                 <<rule.rhs[i + 1], NT(SplitName(rule, i + 1))>>, 0, "Split")]
      \o <<Rule(NT(SplitName(rule, n - 2)), SubSeq(rule.rhs, n - 1, n), 0, "Split")>>

\* t_rules[t] in Term
TermRule(t) == Rule(NT(<<"_", "_", "T", "_">> \o t.s), <<t>>, 0, "Term")

\* The terminals of rhs, each once.  (The code walks the dict t_rules, in
\* hash order; Grammar sorts the rules afterwards and the rules added for two
\* terminals never have the same str, so the order here is not observable.)
TerminalsOf(rhs) ==
  LET ts == SelectSeq(rhs, IsT)
      first == {i \in 1..Len(ts) : \A k \in 1..(i - 1) : ts[k] # ts[i]}
  IN  SelectSeq([i \in 1..Len(ts) |-> [i |-> i, t |-> ts[i]]],
                LAMBDA e : e.i \in first)

\* Term leaving the rules with two symbols alone.
TermOneLong(rule) ==
  IF Len(rule.rhs) > 2 /\ \E i \in 1..Len(rule.rhs) : IsT(rule.rhs[i])
  THEN LET new_rhs == [i \in 1..Len(rule.rhs) |->
                         IF IsT(rule.rhs[i]) THEN TermRule(rule.rhs[i]).lhs
                         ELSE rule.rhs[i]]
           ts == TerminalsOf(rule.rhs)
       IN  <<Rule(rule.lhs, new_rhs, rule.weight, rule.alias)>>
           \o [i \in 1..Len(ts) |-> TermRule(ts[i].t)]
  ELSE <<rule>>

\* Lines 331-336 of Term: what one rule of g contributes to new_rules.
TermOne(rule) ==
  IF Len(rule.rhs) > 1 /\ \E i \in 1..Len(rule.rhs) : IsT(rule.rhs[i])
  THEN LET new_rhs == [i \in 1..Len(rule.rhs) |->
                         IF IsT(rule.rhs[i]) THEN TermRule(rule.rhs[i]).lhs
                         ELSE rule.rhs[i]]
           ts == TerminalsOf(rule.rhs)
       IN  <<Rule(rule.lhs, new_rhs, rule.weight, rule.alias)>>
           \o [i \in 1..Len(ts) |-> TermRule(ts[i].t)]
  ELSE <<rule>>

Term(gr) == Grammar(Concat([i \in 1..Len(gr) |-> TermOne(gr[i])]))

BinOne(rule) == IF Len(rule.rhs) > 2 THEN Split(rule) ELSE <<rule>>

Bin(gr) == Grammar(Concat([i \in 1..Len(gr) |-> BinOne(gr[i])]))

RECURSIVE Unit(_)
Unit(gr) ==
  LET nt_unit_rule == GetAnyNtUnitRule(gr)
  IN  IF nt_unit_rule # None THEN Unit(RemoveUnitRule(gr, nt_unit_rule)) ELSE gr

-----------------------------------------------------------------------------
(* Terminals: T.regexp and T.match *)

Quantifiers == {"*", "+"}

RECURSIVE SplitAlt(_, _)
\* The alternatives of a pattern: its source cut at every '|'.
SplitAlt(src, cur) ==
  IF src = <<>> THEN <<cur>>
  ELSE IF Head(src) = "|" THEN <<cur>> \o SplitAlt(Tail(src), <<>>)
  ELSE SplitAlt(Tail(src), Append(cur, Head(src)))

RECURSIVE Items(_)
\* One alternative as its items: a literal character with its quantifier.
Items(b) ==
  IF b = <<>> THEN <<>>
  ELSE IF Len(b) >= 2 /\ b[2] \in Quantifiers
       THEN <<[c |-> b[1], q |-> b[2]]>> \o Items(SubSeq(b, 3, Len(b)))
       ELSE <<[c |-> b[1], q |-> ""]>> \o Items(Tail(b))

\* re.compile(s), for patterns of literals, '|', '*' and '+'.
re_compile(src) ==
  LET alts == SplitAlt(src, <<>>)
  IN  [i \in 1..Len(alts) |-> Items(alts[i])]

\* re.compile raises for a quantifier with nothing to repeat.  A quantifier
\* on a quantifier ('a*+') is refused too: 'multiple repeat' for the Python 2
\* this code is written in, a possessive quantifier from Python 3.11 on.
CompileOk(src) ==
  LET re == re_compile(src)
  IN  \A i \in 1..Len(re) : \A k \in 1..Len(re[i]) : re[i][k].c \notin Quantifiers

\* How many times character c is repeated in s from position pos (0-based).
RunLength(c, s, pos) ==
  LET stop == {k \in (pos + 1)..Len(s) : s[k] # c}
  IN  IF stop = {} THEN Len(s) - pos ELSE MinOf(stop) - 1 - pos

RECURSIVE MatchEnds(_, _, _)
\* Where a match of 'items' that starts at pos can end, in the order in which
\* the backtracking matcher tries them: a greedy quantifier takes as many
\* repetitions as it can and gives them back one by one.
MatchEnds(items, s, pos) ==
  IF items = <<>> THEN <<pos>>
  ELSE LET it == Head(items)
           run == RunLength(it.c, s, pos)
           counts ==
             IF it.q = "*" THEN [k \in 1..(run + 1) |-> run + 1 - k]
             ELSE IF it.q = "+" THEN [k \in 1..run |-> run + 1 - k]
             ELSE IF run >= 1 THEN <<1>> ELSE <<>>
       IN  Concat([k \in 1..Len(counts) |-> MatchEnds(Tail(items), s, pos + counts[k])])

\* Every end of a match at position 0, alternatives tried left to right.
AllEnds(re, s) == Concat([i \in 1..Len(re) |-> MatchEnds(re[i], s, 0)])

\* regexp.match(s): the first match found (its group(0) is s[0:end]), or None.
re_match(re, s) ==
  LET ends == AllEnds(re, s)
  IN  IF ends = <<>> THEN None ELSE [cls |-> "Match", end |-> ends[1]]

\* T.match(self, s)
match(t, s) ==
  LET m == re_match(re_compile(t.s), s)
  IN  m # None /\ m.end = Len(s)

-----------------------------------------------------------------------------
(* CnfWrapper *)

AssertionError == [cls |-> "AssertionError"]

IsTerminalRule(r) == Len(r.rhs) = 1 /\ IsT(r.rhs[1])
IsNonterminalRule(r) == Len(r.rhs) = 2 /\ IsNT(r.rhs[1]) /\ IsNT(r.rhs[2])

\* A dict filled by d[key(r)].append(r) for the rules r that 'has' selects:
\* the pairs (key, list) in the order the keys were first inserted.
IndexBy(rs, has(_), key(_)) ==
  LET sel == SelectSeq(rs, has)
      first == {i \in 1..Len(sel) : \A k \in 1..(i - 1) : key(sel[k]) # key(sel[i])}
      firsts == SelectSeq([i \in 1..Len(sel) |-> [i |-> i, r |-> sel[i]]],
                          LAMBDA e : e.i \in first)
  IN  [n \in 1..Len(firsts) |->
         [k |-> key(firsts[n].r),
          v |-> SelectSeq(sel, LAMBDA r : key(r) = key(firsts[n].r))]]

\* CnfWrapper(grammar)
CnfWrapper(gr) ==
  IF \A i \in 1..Len(gr) : IsTerminalRule(gr[i]) \/ IsNonterminalRule(gr[i])
  THEN [cls |-> "CnfWrapper", grammar |-> gr, rules |-> gr,
        terminal_rules |-> IndexBy(gr, IsTerminalRule, LAMBDA r : r.rhs[1]),
        nonterminal_rules |-> IndexBy(gr, IsNonterminalRule, LAMBDA r : r.rhs)]
  ELSE AssertionError

ToCnf(gr) == CnfWrapper(Unit(Bin(Term(gr))))

\* d.get(key, [])
DictGet(d, key) ==
  LET hit == {i \in 1..Len(d) : d[i].k = key}
  IN  IF hit = {} THEN <<>> ELSE d[MinOf(hit)].v

\* The dict d after d[key], which inserts the default of a defaultdict.
AfterGetItem(d, key) ==
  IF \E i \in 1..Len(d) : d[i].k = key THEN d ELSE Append(d, [k |-> key, v |-> <<>>])

\* The dict d after d.get(key, []): get never inserts.
AfterGet(d, key) == d

-----------------------------------------------------------------------------
(* _Parse *)

RuleNode(rule, children, weight) ==
  [rule |-> rule, children |-> children, weight |-> weight]

IsRuleNode(x) == "rule" \in DOMAIN x

Spans(n) == {sp \in (0..(n - 1)) \X (0..(n - 1)) : sp[1] <= sp[2]}

\* table[span] and trees[span] of a defaultdict: empty when never written.
Cell(tbl, span) == IF span \in DOMAIN tbl THEN tbl[span] ELSE <<>>

\* set.add(rule): a set holds one of several equal rules, the first added.
SetAdd(set, rule) ==
  IF \E i \in 1..Len(set) : RuleEq(set[i], rule) THEN set ELSE Append(set, rule)

\* The comparison of weights turned round.
Heavier(cell, node) ==
  IF node.rule.lhs \notin DOMAIN cell \/ node.weight > cell[node.rule.lhs].weight
  THEN [x \in DOMAIN cell \cup {node.rule.lhs} |->
          IF x = node.rule.lhs THEN node ELSE cell[x]]
  ELSE cell

\* trees[span][rule.lhs] = node when there is none yet or node is lighter.
Lighter(cell, node) ==
  IF node.rule.lhs \notin DOMAIN cell \/ node.weight < cell[node.rule.lhs].weight
  THEN [x \in DOMAIN cell \cup {node.rule.lhs} |->
          IF x = node.rule.lhs THEN node ELSE cell[x]]
  ELSE cell

RECURSIVE AddAll(_, _, _)
\* The updates of one cell of table and trees, candidate by candidate.
AddAll(tcell, trcell, nodes) ==
  IF nodes = <<>> THEN [table |-> tcell, trees |-> trcell]
  ELSE AddAll(SetAdd(tcell, Head(nodes).rule), Lighter(trcell, Head(nodes)),
              Tail(nodes))

\* The iteration orders of one call of _Parse: ord.terminal_rules is the
\* order of the dict g.terminal_rules, ord.table[span] that of the set
\* table[span].  A set that ord.table does not name comes in the order it
\* was filled.
SetIter(tbl, ord, span) ==
  IF span \in DOMAIN ord.table THEN Iter(Cell(tbl, span), ord.table[span])
  ELSE Cell(tbl, span)

\* Lines 197-204: the candidates of cell (i, i), in loop order.
BaseNodes(s, cnf, ord, i) ==
  LET items == Iter(cnf.terminal_rules, ord.terminal_rules)
      w == s[i + 1]
  IN  Concat([k \in 1..Len(items) |->
        IF match(items[k].k, w)
        THEN [n \in 1..Len(items[k].v) |->
                RuleNode(items[k].v[n], <<T(w)>>, items[k].v[n].weight)]
        ELSE <<>>])

\* Lines 211-221: the candidates of cell (i, i + l - 1) that one partition p
\* yields, in the order of itertools.product and of the list of rules.
PartNodes(acc, cnf, ord, i, l, p) ==
  LET span1 == <<i, p - 1>>
      span2 == <<p, i + l - 1>>
      t1 == SetIter(acc.table, ord, span1)
      t2 == SetIter(acc.table, ord, span2)
  IN  Concat([a \in 1..Len(t1) |-> Concat([b \in 1..Len(t2) |->
        LET found == DictGet(acc.nonterminal_rules, <<t1[a].lhs, t2[b].lhs>>)
            r1_tree == acc.trees[span1][t1[a].lhs]
            r2_tree == acc.trees[span2][t2[b].lhs]
        IN  [n \in 1..Len(found) |->
               RuleNode(found[n], <<r1_tree, r2_tree>>,
                        found[n].weight + r1_tree.weight + r2_tree.weight)]])])

\* Lines 210-221: the candidates of cell (i, i + l - 1), in loop order.
SpanNodes(acc, cnf, ord, i, l) ==
  Concat([pp \in 1..(l - 1) |-> PartNodes(acc, cnf, ord, i, l, i + pp)])

\* The keys looked up in g.nonterminal_rules while cell (i, i + l - 1) is filled.
SpanLookups(acc, cnf, ord, i, l) ==
  Concat([pp \in 1..(l - 1) |->
    LET t1 == SetIter(acc.table, ord, <<i, i + pp - 1>>)
        t2 == SetIter(acc.table, ord, <<i + pp, i + l - 1>>)
    IN  Concat([a \in 1..Len(t1) |-> [b \in 1..Len(t2) |-> <<t1[a].lhs, t2[b].lhs>>]])])

RECURSIVE AfterGets(_, _)
AfterGets(d, keys) ==
  IF keys = <<>> THEN d ELSE AfterGets(AfterGet(d, Head(keys)), Tail(keys))

\* The cells in the order the loops fill them: by length, then by start.
CellOrder(n) ==
  Concat([l \in 1..n |-> [k \in 1..(n - l + 1) |-> <<k - 1, l>>]])

RECURSIVE Fill(_, _, _, _, _)
Fill(acc, s, cnf, ord, cells) ==
  IF cells = <<>> THEN acc
  ELSE LET i == Head(cells)[1]
           l == Head(cells)[2]
           span == <<i, i + l - 1>>
           nodes == IF l = 1 THEN BaseNodes(s, cnf, ord, i)
                    ELSE SpanNodes(acc, cnf, ord, i, l)
           cell == AddAll(<<>>, <<>>, nodes)
           gets == IF l = 1 THEN <<>> ELSE SpanLookups(acc, cnf, ord, i, l)
       IN  Fill([table |-> [sp \in DOMAIN acc.table \cup {span} |->
                              IF sp = span THEN cell.table ELSE acc.table[sp]],
                 trees |-> [sp \in DOMAIN acc.trees \cup {span} |->
                              IF sp = span THEN cell.trees ELSE acc.trees[sp]],
                 nonterminal_rules |-> AfterGets(acc.nonterminal_rules, gets)],
                s, cnf, ord, Tail(cells))

\* table = defaultdict(set); trees = defaultdict(dict)
NewTables(cnf) ==
  [table |-> <<>>, trees |-> <<>>, nonterminal_rules |-> cnf.nonterminal_rules]

\* _Parse(s, g) under the iteration orders 'ord': table and trees, and
\* g.nonterminal_rules as the call leaves it.
_Parse(s, cnf, ord) == Fill(NewTables(cnf), s, cnf, ord, CellOrder(Len(s)))

\* The orders of the dict g.terminal_rules.
DictOrders(cnf) ==
  IF cnf = AssertionError THEN {<<>>} ELSE Orders(Len(cnf.terminal_rules))

\* The partitions (i, l, p) of the loops of lines 207-211.
Parts(n) ==
  {x \in (0..(n - 1)) \X (2..n) \X (1..(n - 1)) :
     x[1] + x[2] <= n /\ x[1] < x[3] /\ x[3] < x[1] + x[2]}

\* The child spans of partition x whose order the trees depend on: two
\* candidates for one lhs, both of the weight trees ends up with, come of
\* different rules of such a span, so that the one product yields first is
\* kept (the check of line 219 is a strict '<').
TiedAt(out, cnf, ord, x) ==
  LET i == x[1]
      l == x[2]
      p == x[3]
      nodes == PartNodes(out, cnf, ord, i, l, p)
      best == out.trees[<<i, i + l - 1>>]
      tied(k) == \E a, b \in 1..Len(nodes) :
                   /\ nodes[a].rule.lhs = nodes[b].rule.lhs
                   /\ nodes[a].weight = best[nodes[a].rule.lhs].weight
                   /\ nodes[b].weight = nodes[a].weight
                   /\ nodes[a].children[k].rule.lhs # nodes[b].children[k].rule.lhs
  IN  (IF tied(1) THEN {<<i, p - 1>>} ELSE {})
        \cup (IF tied(2) THEN {<<p, i + l - 1>>} ELSE {})

\* The iteration orders a call of _Parse can meet, one of every kind the
\* outcome can tell apart.  Which rules a cell holds and what the trees
\* weigh does not depend on any order; a set over which no two candidates tie
\* gives the same trees in any order and is taken in the order it was filled,
\* a set over which candidates tie is taken in every order.
HashOrders(s, cnf, dict_order) ==
  LET filled == [terminal_rules |-> dict_order, table |-> <<>>]
      out == _Parse(s, cnf, filled)
      ties == UNION {TiedAt(out, cnf, filled, x) : x \in Parts(Len(s))}
      perms == UNION {Orders(Len(out.table[sp])) : sp \in ties}
  IN  {[terminal_rules |-> dict_order, table |-> f] :
         f \in {h \in [ties -> perms] :
                  \A sp \in ties : Len(h[sp]) = Len(out.table[sp])}}

-----------------------------------------------------------------------------
(* Reversal of a CNF parse tree *)

RECURSIVE UnrollUnitSkipRule(_, _, _, _, _, _)
UnrollUnitSkipRule(lhs, orig_rhs, skipped_rules, children, weight, alias) ==
  IF skipped_rules = <<>>
  THEN RuleNode(Rule(lhs, orig_rhs, weight, alias), children, weight)
  ELSE LET w == weight - skipped_rules[1].weight
       IN  RuleNode(Rule(lhs, <<skipped_rules[1].lhs>>, w, alias),
                    <<UnrollUnitSkipRule(skipped_rules[1].lhs, orig_rhs,
                                         Tail(skipped_rules), children,
                                         skipped_rules[1].weight,
                                         skipped_rules[1].alias)>>,
                    w)

TermPrefix == <<"_", "_", "T", "_">>
SplitPrefix == <<"_", "_", "S", "P", "_">>

\* Lines 389-394: the children of a '__SP_' child take its place.
Spliced(child) ==
  IF IsRuleNode(child) /\ StartsWith(child.rule.lhs.s, SplitPrefix)
  THEN child.children ELSE <<child>>

RECURSIVE RevertCnf(_)
RevertCnf(node) ==
  IF ~IsRuleNode(node) THEN node
  ELSE IF StartsWith(node.rule.lhs.s, TermPrefix) THEN node.children[1]
  ELSE LET reverted_children ==
             [i \in 1..Len(node.children) |-> RevertCnf(node.children[i])]
           children ==
             Concat([i \in 1..Len(reverted_children) |-> Spliced(reverted_children[i])])
       IN  IF IsUnitSkipRule(node.rule)
           THEN UnrollUnitSkipRule(node.rule.lhs, node.rule.rhs,
                                   node.rule.skipped_rules, children,
                                   node.rule.weight, node.rule.alias)
           ELSE RuleNode(node.rule, children, 0)

-----------------------------------------------------------------------------
(* Parser *)

\* A lark rule: origin, expansion, alias and options.priority.  A symbol of
\* the expansion is a Terminal (with its pattern as data) or the name of a
\* non-terminal.
LarkRule(origin, expansion, alias, priority) ==
  [origin |-> origin, expansion |-> expansion, alias |-> alias, priority |-> priority]
Terminal(data) == [larktype |-> "Terminal", data |-> data]
Name(s) == [larktype |-> "str", data |-> s]

\* Parser._ToRule
_ToRule(lark_rule) ==
  Rule(NT(lark_rule.origin),
       [i \in 1..Len(lark_rule.expansion) |->
          IF lark_rule.expansion[i].larktype = "Terminal"
          THEN T(lark_rule.expansion[i].data)
          ELSE NT(lark_rule.expansion[i].data)],
       IF lark_rule.priority # 0 THEN lark_rule.priority ELSE 0,
       lark_rule.alias)

\* {rule.alias: rule for rule in rules}: a later rule replaces an earlier
\* one with the same alias.
OrigRules(rs) ==
  [a \in {rs[i].alias : i \in 1..Len(rs)} |->
     rs[CHOOSE i \in 1..Len(rs) :
          rs[i].alias = a /\ \A k \in (i + 1)..Len(rs) : rs[k].alias # a]]

ParseError == [cls |-> "ParseError"]
KeyError == [cls |-> "KeyError"]
IndexError == [cls |-> "IndexError"]
IsError(x) == "cls" \in DOMAIN x

Token(type, value) == [type |-> type, value |-> value]
Tree(data, children, rule) == [data |-> data, children |-> children, rule |-> rule]

RECURSIVE _ToTree(_, _)
\* Parser._ToTree; the first exception raised, if any, is the result.
_ToTree(orig, rule_node) ==
  IF rule_node.rule.alias \notin DOMAIN orig THEN KeyError
  ELSE LET orig_rule == orig[rule_node.rule.alias]
           children ==
             [i \in 1..Len(rule_node.children) |->
                IF IsRuleNode(rule_node.children[i])
                THEN _ToTree(orig, rule_node.children[i])
                ELSE IF i > Len(orig_rule.expansion) THEN IndexError
                ELSE Token(orig_rule.expansion[i], rule_node.children[i].s)]
           raised == {i \in 1..Len(children) : IsError(children[i])}
       IN  IF raised # {} THEN children[MinOf(raised)]
           ELSE Tree(orig_rule.origin, children, orig_rule.alias)

\* The check of Parser.parse that the parse succeeded (line 161).
Accepts(tbl, n, st) ==
  \E i \in 1..Len(Cell(tbl, <<0, n - 1>>)) : Cell(tbl, <<0, n - 1>>)[i].lhs = st

\* Parser.parse, given what _Parse returned.
ParseResult(out, n, st, orig) ==
  IF ~Accepts(out.table, n, st) THEN ParseError
  ELSE _ToTree(orig, RevertCnf(out.trees[<<0, n - 1>>][st]))

-----------------------------------------------------------------------------
(* The inputs *)

\* The most rules of RulePool's core a grammar takes, and the longest input.
MaxRules == 4
MaxLen == 3

StartName == <<"s">>

\* The rules grammars are made of.  Aliases are unique, as the rules lark
\* hands to the parser have them; priorities differ so that a sum of
\* weights tells which rules it adds up.
RulePool ==
  << LarkRule(<<"s">>, <<Name(<<"t">>), Name(<<"u">>)>>, "r1", 1),
     LarkRule(<<"s">>, <<Name(<<"t">>)>>, "r2", 2),
     LarkRule(<<"t">>, <<Name(<<"u">>)>>, "r3", 4),
     LarkRule(<<"t">>, <<Terminal(<<"a">>)>>, "r4", 8),
     LarkRule(<<"u">>, <<Terminal(<<"b">>)>>, "r5", 16),
     LarkRule(<<"u">>, <<Terminal(<<"a">>)>>, "r6", 3),
     LarkRule(<<"t">>, <<Terminal(<<"a">>), Name(<<"u">>), Terminal(<<"b">>)>>, "r7", 5),
     LarkRule(<<"s">>, <<Name(<<"t">>), Terminal(<<"a">>), Name(<<"u">>), Terminal(<<"b">>)>>, "r8", 7),
     LarkRule(<<"u">>, <<Name(<<"t">>), Terminal(<<"b">>)>>, "r9", 0),
     LarkRule(<<"s">>, <<Name(<<"t", "_", "u">>), Terminal(<<"a">>), Terminal(<<"b">>)>>, "r10", 1),
     LarkRule(<<"s">>, <<Name(<<"t">>), Name(<<"u">>), Terminal(<<"a">>), Terminal(<<"b">>)>>, "r11", 2),
     LarkRule(<<"t", "_", "u">>, <<Terminal(<<"a">>)>>, "r12", 0),
     LarkRule(<<"t">>, <<Terminal(<<"b">>)>>, "r13", 0),
     LarkRule(<<"u">>, <<Name(<<"v">>)>>, "r14", 32),
     LarkRule(<<"v">>, <<Terminal(<<"a">>)>>, "r15", 64),
     LarkRule(<<"s">>, <<Name(<<"u">>), Name(<<"u">>)>>, "r16", 6) >>

\* The rules any grammar may combine, up to MaxRules of them.
Core == (1..7) \cup {9}

\* Grammars taken whole: two rules whose names Split joins to one string, a
\* chain of three unit rules, two derivations of "a b" from s of the same
\* weight (1 + 8 + 16 = 6 + 3 + 16), where the iteration order decides, and
\* a rule of four symbols, which Split cuts in three.
Scenarios == {{5, 10, 11, 12, 13}, {2, 3, 14, 15}, {1, 4, 5, 6, 16}, {4, 5, 6, 8}}

RECURSIVE SetToSeq(_)
\* The elements of a set of numbers in increasing order.
SetToSeq(S) == IF S = {} THEN <<>> ELSE <<MinOf(S)>> \o SetToSeq(S \ {MinOf(S)})

RulesOf(S) == [i \in 1..Cardinality(S) |-> RulePool[SetToSeq(S)[i]]]

\* What the grammars of the claims have in common: no empty right-hand
\* side, no start symbol on a right-hand side, no cycle among unit rules.
NoEmptyRhs(rs) == \A i \in 1..Len(rs) : rs[i].expansion # <<>>

StartNotOnRhs(rs) ==
  \A i \in 1..Len(rs) : \A k \in 1..Len(rs[i].expansion) :
    rs[i].expansion[k] # Name(StartName)

UnitEdges(rs) ==
  {<<rs[i].origin, rs[i].expansion[1].data>> :
     i \in {k \in 1..Len(rs) : Len(rs[k].expansion) = 1
                               /\ rs[k].expansion[1].larktype = "str"}}

RECURSIVE Reach(_, _)
\* The transitive closure of a relation.
Reach(E, R) ==
  LET more == R \cup {<<e[1], f[2]>> : e \in R, f \in E}
      grown == {p \in more : \E e \in R, f \in E : e[2] = f[1] /\ p = <<e[1], f[2]>>} \cup R
  IN  IF grown = R THEN R ELSE Reach(E, grown)

NoUnitCycle(rs) == \A p \in Reach(UnitEdges(rs), UnitEdges(rs)) : p[1] # p[2]

Grammars ==
  {S \in (SUBSET Core) \cup Scenarios :
     /\ S # {}
     /\ (S \in Scenarios \/ Cardinality(S) <= MaxRules)
     /\ NoEmptyRhs(RulesOf(S)) /\ StartNotOnRhs(RulesOf(S)) /\ NoUnitCycle(RulesOf(S))}

TokenTexts == {<<"a">>, <<"b">>}

TokenSeqs == UNION {[1..n -> TokenTexts] : n \in 0..MaxLen}

-----------------------------------------------------------------------------
(* Parser.__init__ and Parser.parse *)

\* The grammar as given, before ToCnf.
Original == [i \in 1..Len(rules) |-> _ToRule(rules[i])]

\* The grammar of a Parser constructed of 'rules': lines 141-146.
FreshGrammar == ToCnf(Grammar(Original))

Init ==
  /\ \E S \in Grammars : rules = RulesOf(S)
  /\ order \in DictOrders(FreshGrammar)
  /\ pc = "new"
  /\ orig_rules = <<>> /\ start = None /\ g = <<>> /\ grammar = None
  /\ tokenized = <<>> /\ table = <<>> /\ trees = <<>> /\ result = None
  /\ hashed = <<>>
  /\ prev = "none"
  /\ splitSt = None /\ matchSt = None
  /\ step = 0
  /\ fresh = FreshGrammar

\* Lines 143-145: orig_rules, the rules converted, Grammar(rules).
Construct ==
  /\ pc = "new"
  /\ orig_rules' = OrigRules(rules)
  /\ g' = Grammar([i \in 1..Len(rules) |-> _ToRule(rules[i])])
  /\ pc' = "term"
  /\ step' = step + 1
  /\ UNCHANGED <<rules, order, start, grammar, tokenized, table, trees, hashed,
                 result, prev, splitSt, matchSt, fresh>>

TermStep ==
  /\ pc = "term"
  /\ g' = Term(g)
  /\ pc' = "bin"
  /\ step' = step + 1
  /\ UNCHANGED <<rules, order, orig_rules, start, grammar, tokenized, table,
                 trees, hashed, result, prev, splitSt, matchSt, fresh>>

BinStep ==
  /\ pc = "bin"
  /\ g' = Bin(g)
  /\ pc' = "unit"
  /\ step' = step + 1
  /\ UNCHANGED <<rules, order, orig_rules, start, grammar, tokenized, table,
                 trees, hashed, result, prev, splitSt, matchSt, fresh>>

\* One turn of the loop of Unit.
UnitLoop ==
  /\ pc = "unit"
  /\ GetAnyNtUnitRule(g) # None
  /\ g' = RemoveUnitRule(g, GetAnyNtUnitRule(g))
  /\ step' = step + 1
  /\ UNCHANGED <<rules, order, pc, orig_rules, start, grammar, tokenized, table,
                 trees, hashed, result, prev, splitSt, matchSt, fresh>>

\* Unit returns g.
UnitReturn ==
  /\ pc = "unit"
  /\ GetAnyNtUnitRule(g) = None
  /\ pc' = "wrap"
  /\ step' = step + 1
  /\ UNCHANGED <<rules, order, g, orig_rules, start, grammar, tokenized, table,
                 trees, hashed, result, prev, splitSt, matchSt, fresh>>

\* CnfWrapper(g), and the end of Parser.__init__ unless an assertion fails.
Wrap ==
  /\ pc = "wrap"
  /\ grammar' = CnfWrapper(g)
  /\ pc' = IF CnfWrapper(g) = AssertionError THEN "failed" ELSE "ready"
  /\ start' = IF CnfWrapper(g) = AssertionError THEN start ELSE NT(StartName)
  /\ step' = step + 1
  /\ UNCHANGED <<rules, order, g, orig_rules, tokenized, table, trees, hashed,
                 result, prev, splitSt, matchSt, fresh>>

\* Parser.parse(tokenized), up to its return or raise: table and trees are
\* the locals of the call, result is what it returns or raises.  The dict
\* of the parser keeps its order; the sets of the call come in any order.
Parse ==
  /\ pc = "ready"
  /\ \E toks \in TokenSeqs :
       \E ord \in HashOrders(toks, grammar, order) :
         \E out \in {_Parse(toks, grammar, ord)} :
           /\ tokenized' = toks
           /\ table' = out.table
           /\ trees' = out.trees
           /\ hashed' = ord.table
           /\ grammar' = [grammar EXCEPT !.nonterminal_rules = out.nonterminal_rules]
           /\ result' = ParseResult(out, Len(toks), start, orig_rules)
  /\ pc' = "parsed"
  /\ UNCHANGED <<rules, order, orig_rules, start, g, prev, splitSt, matchSt, step, fresh>>

\* The caller has the result; the locals of the call are gone and the
\* parser is ready for the next call.
Return ==
  /\ pc = "parsed"
  /\ pc' = "ready"
  /\ tokenized' = <<>> /\ table' = <<>> /\ trees' = <<>> /\ result' = None
  /\ hashed' = <<>>
  /\ prev' = IF IsError(result) THEN result.cls ELSE "Tree"
  /\ UNCHANGED <<rules, order, orig_rules, start, g, grammar, splitSt, matchSt, step, fresh>>

Next ==
  Construct \/ TermStep \/ BinStep \/ UnitLoop \/ UnitReturn \/ Wrap \/ Parse \/ Return

Spec == Init /\ [][Next]_vars

\* Parser.__init__ alone.
InitNext == Construct \/ TermStep \/ BinStep \/ UnitLoop \/ UnitReturn \/ Wrap

\* Parser.__init__ is one call on one thread: once started it takes its next
\* step. Every step of InitNext is a step of Running and, under
\* [][InitNext]_vars, the converse; one of them is enabled exactly when pc is
\* in InitPcs, so this is WF_vars(InitNext), stated on pc and step alone.
InitPcs == {"new", "term", "bin", "unit", "wrap"}

Running == pc \in InitPcs /\ step' = step + 1

InitSpec == Init /\ [][InitNext]_vars /\ WF_step(Running)

-----------------------------------------------------------------------------
(* T.match on its own: a terminal is made of a pattern and asked to match *)

MaxPat == 3
MaxText == 2

PatChars == {"a", "b", "|", "*", "+"}

\* The patterns of literals, '|', '*' and '+' that every re.compile
\* accepts and reads alike, up to MaxPat characters.
Patterns == {p \in UNION {[1..n -> PatChars] : n \in 0..MaxPat} : CompileOk(p)}

\* The token texts, up to MaxText characters.
Texts == UNION {[1..n -> {"a", "b"}] : n \in 0..MaxText}

\* No Parser is at work.
NoParser ==
  /\ rules = <<>> /\ order = <<>> /\ pc = "none"
  /\ orig_rules = <<>> /\ start = None /\ g = <<>> /\ grammar = None
  /\ tokenized = <<>> /\ table = <<>> /\ trees = <<>> /\ result = None
  /\ hashed = <<>>
  /\ prev = "none" /\ step = 0 /\ fresh = None

parserVars == <<rules, order, pc, orig_rules, start, g, grammar, tokenized,
                table, trees, hashed, result, prev, step, fresh>>

MatchInit ==
  /\ NoParser
  /\ splitSt = None
  /\ \E p \in Patterns : \E s \in Texts :
       matchSt = [pc |-> "new", pattern |-> p, s |-> s, t |-> None, res |-> None]

\* T(pattern): lines 40-42.
NewT ==
  /\ matchSt # None /\ matchSt.pc = "new"
  /\ matchSt' = [matchSt EXCEPT !.pc = "made", !.t = T(matchSt.pattern)]
  /\ UNCHANGED <<parserVars, splitSt>>

\* t.match(s): lines 44-46.
MatchCall ==
  /\ matchSt # None /\ matchSt.pc = "made"
  /\ matchSt' = [matchSt EXCEPT !.pc = "done", !.res = match(matchSt.t, matchSt.s)]
  /\ UNCHANGED <<parserVars, splitSt>>

MatchNext == NewT \/ MatchCall

MatchSpec == MatchInit /\ [][MatchNext]_vars

-----------------------------------------------------------------------------
(* Split on its own: Bin splits two rules of one grammar *)

MaxRhs == 3

SplitNames == {<<"a">>, <<"a", "_", "a">>}

\* Rules Bin splits: non-terminals only (Term has run), three symbols or more.
LongRules ==
  {Rule(NT(l), [k \in 1..Len(r) |-> NT(r[k])], 0, "long") :
     l \in SplitNames, r \in UNION {[1..n -> SplitNames] : n \in 3..MaxRhs}}

SplitInit ==
  /\ NoParser
  /\ matchSt = None
  /\ \E r1 \in LongRules : \E r2 \in LongRules :
       splitSt = [pc |-> "new", first |-> r1, second |-> r2,
                  new_first |-> <<>>, new_second |-> <<>>]

\* Bin reaches the first rule: new_rules.extend(Split(rule)).
SplitFirst ==
  /\ splitSt # None /\ splitSt.pc = "new"
  /\ splitSt' = [splitSt EXCEPT !.pc = "one", !.new_first = BinOne(splitSt.first)]
  /\ UNCHANGED <<parserVars, matchSt>>

\* Bin reaches the second rule.
SplitSecond ==
  /\ splitSt # None /\ splitSt.pc = "one"
  /\ splitSt' = [splitSt EXCEPT !.pc = "done", !.new_second = BinOne(splitSt.second)]
  /\ UNCHANGED <<parserVars, matchSt>>

SplitNext == SplitFirst \/ SplitSecond

SplitSpec == SplitInit /\ [][SplitNext]_vars

-----------------------------------------------------------------------------
(* What the claims speak of *)

N == Len(tokenized)

Accepted == pc = "parsed" /\ Accepts(table, N, start)

\* The CNF tree parse takes, and what RevertCnf makes of it.
CnfTree == trees[<<0, N - 1>>][start]
Reverted == RevertCnf(CnfTree)

RECURSIVE Nodes(_)
\* The RuleNodes of a tree.
Nodes(node) ==
  IF ~IsRuleNode(node) THEN {}
  ELSE {node} \cup UNION {Nodes(node.children[i]) : i \in 1..Len(node.children)}

RECURSIVE SumSeq(_)
SumSeq(ws) == IF ws = <<>> THEN 0 ELSE Head(ws) + SumSeq(Tail(ws))

RECURSIVE RuleWeights(_)
\* The sum of the weights of the rules of the nodes of a tree.
RuleWeights(node) ==
  IF ~IsRuleNode(node) THEN 0
  ELSE node.rule.weight
       + SumSeq([i \in 1..Len(node.children) |-> RuleWeights(node.children[i])])

RECURSIVE DerivesSym(_, _, _, _, _)
RECURSIVE DerivesSeq(_, _, _, _, _)
\* Symbol x of grammar gr derives tokens i..j of s (0-based, i <= j).
DerivesSym(gr, x, s, i, j) ==
  IF IsT(x) THEN i = j /\ match(x, s[i + 1])
  ELSE \E k \in 1..Len(gr) : gr[k].lhs = x /\ DerivesSeq(gr, gr[k].rhs, s, i, j)
\* The symbols of rhs, one after the other, derive tokens i..j of s.
DerivesSeq(gr, rhs, s, i, j) ==
  IF Len(rhs) = 1 THEN DerivesSym(gr, rhs[1], s, i, j)
  ELSE \E p \in i..(j - 1) :
         DerivesSym(gr, rhs[1], s, i, p) /\ DerivesSeq(gr, Tail(rhs), s, p + 1, j)

Derives(gr, x, s) == s # <<>> /\ DerivesSym(gr, x, s, 0, Len(s) - 1)

RECURSIVE DerivationWeights(_, _, _, _, _)
\* The cumulative weights of the derivations of tokens i..j of s from x in
\* the CNF grammar gr, each the sum of the weights of the rules it uses.
DerivationWeights(gr, x, s, i, j) ==
  IF i = j
  THEN {gr[k].weight : k \in {k \in 1..Len(gr) :
           gr[k].lhs = x /\ IsTerminalRule(gr[k]) /\ match(gr[k].rhs[1], s[i + 1])}}
  ELSE UNION {UNION {
         {gr[k].weight + a + b :
            a \in DerivationWeights(gr, gr[k].rhs[1], s, i, p - 1),
            b \in DerivationWeights(gr, gr[k].rhs[2], s, p, j)} :
         p \in (i + 1)..j} :
       k \in {k \in 1..Len(gr) : gr[k].lhs = x /\ IsNonterminalRule(gr[k])}}

NonTerminals(gr) == {gr[k].lhs : k \in 1..Len(gr)}

-----------------------------------------------------------------------------
(* The claims *)

\* C1: Parser.parse accepts a token sequence exactly when the start symbol
\* derives it in the original grammar, and raises ParseError otherwise.
LanguagePreserved ==
  pc = "parsed" =>
    /\ Accepts(table, N, start) <=> Derives(Original, start, tokenized)
    /\ ~Derives(Original, start, tokenized) => result = ParseError

\* C2: when _Parse returns, a non-terminal has a tree at a span exactly when
\* it derives the span in the CNF grammar, and the weight of the stored tree
\* is at most the cumulative weight of every such derivation.
WeightMinimal ==
  pc = "parsed" =>
    \A sp \in Spans(N) : \A x \in NonTerminals(grammar.rules) :
      LET ws == DerivationWeights(grammar.rules, x, tokenized, sp[1], sp[2])
      IN  /\ x \in DOMAIN Cell(trees, sp) <=> ws # {}
          /\ x \in DOMAIN Cell(trees, sp) => \A w \in ws : trees[sp][x].weight <= w

\* C2's case: a span of two or more tokens that a non-terminal derives in
\* several ways of different weight.
WeightMinimalWitness ==
  /\ pc = "parsed"
  /\ \E sp \in Spans(N) : \E x \in NonTerminals(grammar.rules) :
       /\ sp[1] < sp[2]
       /\ Cardinality(DerivationWeights(grammar.rules, x, tokenized, sp[1], sp[2])) >= 2
       /\ x \in DOMAIN Cell(trees, sp)

\* C3: the tree RevertCnf returns has no '__T_' or '__SP_' node and no
\* UnitSkipRule; every node has the alias of an original rule with the same
\* lhs and as many children as that rule has right-hand-side symbols.
ReversalFidelity ==
  Accepted =>
    \A node \in Nodes(Reverted) :
      /\ ~StartsWith(node.rule.lhs.s, TermPrefix)
      /\ ~StartsWith(node.rule.lhs.s, SplitPrefix)
      /\ ~IsUnitSkipRule(node.rule)
      /\ node.rule.alias \in DOMAIN orig_rules
      /\ orig_rules[node.rule.alias].origin = node.rule.lhs.s
      /\ Len(node.children) = Len(orig_rules[node.rule.alias].expansion)

\* C4: every node of the reverted tree carries a rule with the weight of the
\* original rule its lhs and alias identify, whatever the length of the chain
\* of unit rules UNIT collapsed.
WeightsRecovered ==
  Accepted =>
    \A node \in Nodes(Reverted) :
      node.rule.alias \in DOMAIN orig_rules =>
        node.rule.weight = _ToRule(orig_rules[node.rule.alias]).weight

\* C5: every rule of Unit(Bin(Term(G))) has one terminal or two
\* non-terminals on its right-hand side, and no assertion of CnfWrapper fails.
CnfShape ==
  /\ pc = "wrap" => \A i \in 1..Len(g) :
       \/ Len(g[i].rhs) = 1 /\ g[i].rhs[1].kind = "T"
       \/ Len(g[i].rhs) = 2 /\ g[i].rhs[1].kind = "NT" /\ g[i].rhs[2].kind = "NT"
  /\ pc # "failed"

\* C5's case: a grammar that TERM, BIN and UNIT have all rewritten is wrapped.
CnfShapeWitness ==
  /\ pc = "ready"
  /\ \E i \in 1..Len(grammar.rules) : grammar.rules[i].alias = "Term"
  /\ \E i \in 1..Len(grammar.rules) : grammar.rules[i].alias = "Split"
  /\ \E i \in 1..Len(grammar.rules) : IsUnitSkipRule(grammar.rules[i])

\* C6: after any number of parse calls, whether they returned a tree or
\* raised, the parser's grammar with its indexes, its start symbol and its
\* alias map are those of a freshly constructed parser, and the table, the
\* trees and the outcome of the call are those of the same call on that
\* fresh parser.
ParseKeepsParser ==
  pc \in {"ready", "parsed"} =>
    /\ grammar = fresh
    /\ start = NT(StartName)
    /\ orig_rules = OrigRules(rules)
    /\ pc = "parsed" =>
         LET out == _Parse(tokenized, fresh,
                           [terminal_rules |-> order, table |-> hashed])
         IN  /\ table = out.table /\ trees = out.trees
             /\ result = ParseResult(out, N, NT(StartName), OrigRules(rules))

\* C6's case: a call returns a tree on a parser whose call before raised
\* ParseError.
ParseKeepsParserWitness ==
  pc = "parsed" /\ prev = "ParseError" /\ ~IsError(result)

\* C8: the loop of Unit stops, and the grammar it returns has no rule whose
\* right-hand side is a single non-terminal.
UnitTerminates ==
  (pc = "unit") ~>
    (pc = "wrap" /\ \A i \in 1..Len(g) : ~(Len(g[i].rhs) = 1 /\ g[i].rhs[1].kind = "NT"))

\* C8's case: Unit returns after a rule RemoveUnitRule had added was itself
\* removed as a unit rule.
UnitTerminatesWitness ==
  pc = "wrap" /\ \E i \in 1..Len(g) : Len(g[i].skipped_rules) >= 2

\* C10: the cumulative weight of the CNF tree of an accepted parse is the
\* sum of the weights of the rules of the nodes of the reverted tree.
TotalWeightPreserved ==
  Accepted => CnfTree.weight = RuleWeights(Reverted)

\* C10's case: the tree of an accepted parse has a UnitSkipRule at its root
\* over a split rule, and its weight is not 0.
TotalWeightPreservedWitness ==
  /\ Accepted
  /\ IsUnitSkipRule(CnfTree.rule)
  /\ Len(CnfTree.children) = 2
  /\ CnfTree.children[2].rule.alias = "Split"
  /\ CnfTree.weight > 0

RECURSIVE Denotes(_, _)
\* s is in the language of 'items': each item stands for its character once,
\* or repeated ('*': any number of times, '+': at least once).
Denotes(items, s) ==
  IF items = <<>> THEN s = <<>>
  ELSE LET it == Head(items)
       IN  \E k \in 0..Len(s) :
             /\ \A j \in 1..k : s[j] = it.c
             /\ (it.q = "" => k = 1) /\ (it.q = "+" => k >= 1)
             /\ Denotes(Tail(items), SubSeq(s, k + 1, Len(s)))

\* The pattern can match s in its entirety: one of its alternatives does.
CanMatchAll(pattern, s) ==
  \E i \in 1..Len(re_compile(pattern)) : Denotes(re_compile(pattern)[i], s)

\* C7: T.match(s) is true exactly when the pattern can match s in its
\* entirety.
MatchIsFullMatch ==
  (matchSt # None /\ matchSt.pc = "done") =>
    (matchSt.res <=> CanMatchAll(matchSt.pattern, matchSt.s))

\* The intermediate non-terminals among the rules Split returns.
Intermediates(new_rules) ==
  {new_rules[i].lhs : i \in {k \in 1..Len(new_rules) : new_rules[k].alias = "Split"}}

\* C9: two rules that differ in lhs or in rhs are split into chains that
\* share no intermediate non-terminal.
SplitNamesFresh ==
  (splitSt # None /\ splitSt.pc = "done"
     /\ (splitSt.first.lhs # splitSt.second.lhs \/ splitSt.first.rhs # splitSt.second.rhs))
  => Intermediates(splitSt.new_first) \cap Intermediates(splitSt.new_second) = {}
====
